---- MODULE Spec2Model ----
(***************************************************************************)
(* Model of frappe/boot.py: the permission-scoped Page/Report listing      *)
(* (get_user_pages_or_reports, _run_with_permission_query) with its cache, *)
(* home-page resolution (add_home_page) and the link-preview doctype list  *)
(* (get_link_preview_doctypes).                                            *)
(***************************************************************************)
EXTENDS Integers, Sequences, FiniteSets, TLC

VARIABLES
    Page,               \* tabPage: name -> row
    Report,             \* tabReport: name -> row
    CustomRole,         \* tabCustom Role: name -> row
    HasRole,            \* tabHas Role: set of rows [parent, role]
    permission_query,   \* doctype -> fragment of get_permission_query_conditions
    session_user,       \* frappe.session.user
    cache,              \* frappe.cache(): key -> [value, expires]
    clock,              \* seconds
    stored,             \* history: key -> the last set_value on it [value, at]
    last,               \* the last call of get_user_pages_or_reports
    bootinfo,           \* add_home_page: the bootinfo dict
    docs,               \* add_home_page: the docs list
    message_log,        \* frappe.message_log
    home,               \* the last call of add_home_page
    doctype_popup,      \* names of tabDocType rows with show_preview_popup = 1
    customizations,     \* tabProperty Setter rows, property show_preview_popup
    link_preview        \* the last call of get_link_preview_doctypes

vars == <<Page, Report, CustomRole, HasRole, permission_query, session_user, cache, clock,
          stored, last, bootinfo, docs, message_log, home,
          doctype_popup, customizations, link_preview>>

storeVars == <<Page, Report, CustomRole, HasRole, permission_query>>
listingVars == <<cache, clock, stored, last>>
homeVars == <<bootinfo, docs, message_log, home>>
previewVars == <<doctype_popup, customizations, link_preview>>

----------------------------------------------------------------------------
(* Bounds and universes *)

MaxHasRoleRows == 2     \* Has Role rows in a drawn store
MaxTicks == 2           \* clock ticks in the cache specification
MaxLog == 2             \* entries of frappe.message_log
MaxDocs == 2            \* entries of the docs list
MaxOverrides == 3       \* Property Setter rows

TTL == 21600            \* _cache.set_value(..., 21600)
TickSeconds == 10800    \* the clock advances in half TTL windows

NULL == "NULL"
Kinds == {"Page", "Report"}
Names == {"e1", "e2"}               \* Page and Report names
CustomRoleNames == {"c1", "c2"}
Roles == {"r1", "r2"}
Users == {"Administrator", "u1"}

\* frappe.get_roles() of the session user
get_roles(user) == IF user = "Administrator" THEN {"r1", "r2"} ELSE {"r1"}

lower(parent) == IF parent = "Page" THEN "page" ELSE "report"

\* DocType(parent): the rows of the parent table
parentTable(parent) == IF parent = "Page" THEN Page ELSE Report

\* row p with key k set to v (dict update)
Put(p, k, v) == [x \in DOMAIN p \cup {k} |-> IF x = k THEN v ELSE p[x]]

----------------------------------------------------------------------------
(* The permission query fragment *)

NoFragment == ""
OnlyE1 == "name = 'e1'"
Fragments == {NoFragment, OnlyE1}

\* a row satisfies a (non-empty) fragment
Satisfies(row, fragment) ==
    CASE fragment = OnlyE1 -> row.name = "e1"
      [] OTHER -> TRUE

FilterAlways(query, doctype, user) ==
    IF permission_query[doctype] # NoFragment
    THEN {row \in query : Satisfies(row, permission_query[doctype])}
    ELSE query

\* _run_with_permission_query: query AND fragment, or the plain query
_run_with_permission_query(query, doctype, user) ==
    IF permission_query[doctype] # NoFragment /\ user # "Administrator"
    THEN {row \in query : Satisfies(row, permission_query[doctype])}
    ELSE query

----------------------------------------------------------------------------
(* The three branch queries of get_user_pages_or_reports *)

\* the select list shared by the branches, read from a parent row
columns(parent, t) ==
    IF parent = "Report"
    THEN [title |-> t.name, ref_doctype |-> t.ref_doctype, report_type |-> t.report_type]
    ELSE [title |-> t.title]

\* Branch A rows. Its select list names ref_doctype twice for "Report"
\* (customRole.ref_doctype and report.ref_doctype): which of the two the row
\* dict keeps is the driver's choice, dup (no choice to make for "Page", or
\* when there is no Custom Role record and so no row).
pages_with_custom_roles(parent, roles, dup) ==
    { LET c == CustomRole[cr]
          t == parentTable(parent)[n]
          own == [name |-> c[lower(parent)], modified |-> c.modified,
                  ref_doctype |-> c.ref_doctype]
          cols == columns(parent, t)
      IN  IF parent = "Report" /\ dup = "first"
          THEN [x \in DOMAIN own \cup DOMAIN cols |->
                    IF x \in DOMAIN own THEN own[x] ELSE cols[x]]
          ELSE [x \in DOMAIN own \cup DOMAIN cols |->
                    IF x \in DOMAIN cols THEN cols[x] ELSE own[x]]
      : <<cr, hr, n>> \in
          { q \in (DOMAIN CustomRole) \X HasRole \X (DOMAIN parentTable(parent)) :
                /\ q[2].parent = q[1]
                /\ q[3] = CustomRole[q[1]][lower(parent)]
                /\ CustomRole[q[1]][lower(parent)] # NULL
                /\ q[2].role \in roles } }

\* the names some Custom Role record gives for this parent
subq(parent) ==
    { CustomRole[cr][lower(parent)] :
        cr \in {c \in DOMAIN CustomRole : CustomRole[c][lower(parent)] # NULL} }

StandardNoSubq(parent, roles) ==
    { LET t == parentTable(parent)[n]
          own == [name |-> t.name, modified |-> t.modified]
          cols == columns(parent, t)
      IN  [x \in DOMAIN own \cup DOMAIN cols |->
                IF x \in DOMAIN own THEN own[x] ELSE cols[x]]
      : n \in { m \in DOMAIN parentTable(parent) :
                  /\ \E hr \in HasRole : hr.role \in roles /\ hr.parent = m
                  /\ (parent = "Report" => Report[m].disabled = 0) } }

StandardWithDisabled(parent, roles) ==
    { LET t == parentTable(parent)[n]
          own == [name |-> t.name, modified |-> t.modified]
          cols == columns(parent, t)
      IN  [x \in DOMAIN own \cup DOMAIN cols |->
                IF x \in DOMAIN own THEN own[x] ELSE cols[x]]
      : n \in { m \in DOMAIN parentTable(parent) :
                  /\ \E hr \in HasRole : hr.role \in roles /\ hr.parent = m
                  /\ m \notin subq(parent) } }

\* Branch B rows (distinct)
pages_with_standard_roles(parent, roles) ==
    { LET t == parentTable(parent)[n]
          own == [name |-> t.name, modified |-> t.modified]
          cols == columns(parent, t)
      IN  [x \in DOMAIN own \cup DOMAIN cols |->
                IF x \in DOMAIN own THEN own[x] ELSE cols[x]]
      : n \in { m \in DOMAIN parentTable(parent) :
                  /\ \E hr \in HasRole : hr.role \in roles /\ hr.parent = m
                  /\ m \notin subq(parent)
                  /\ (parent = "Report" => Report[m].disabled = 0) } }

\* Count(*) of the Has Role rows of a parent row
no_of_roles(name) == Cardinality({hr \in HasRole : hr.parent = name})

\* Branch C rows
pages_with_no_roles(parent) ==
    { LET t == parentTable(parent)[n]
          own == [name |-> t.name, modified |-> t.modified]
          cols == columns(parent, t)
      IN  [x \in DOMAIN own \cup DOMAIN cols |->
                IF x \in DOMAIN own THEN own[x] ELSE cols[x]]
      : n \in { m \in DOMAIN parentTable(parent) : no_of_roles(m) = 0 } }

----------------------------------------------------------------------------
(* Merging the branches into has_role *)

RowNames(rows) == {p.name : p \in rows}

custom_entry(p) ==
    [modified |-> p.modified, title |-> p.title, ref_doctype |-> p.ref_doctype]

\* for p in pages_with_custom_roles: has_role[p.name] = {...}; the rows come
\* in the order the database gives, so a name with several rows keeps any one
merge_custom(rows) ==
    { h \in [RowNames(rows) -> {custom_entry(p) : p \in rows}] :
        \A n \in DOMAIN h : \E p \in rows : p.name = n /\ h[n] = custom_entry(p) }

standard_entry(p, parent) ==
    IF parent = "Report"
    THEN [modified |-> p.modified, title |-> p.title, ref_doctype |-> p.ref_doctype]
    ELSE [modified |-> p.modified, title |-> p.title]

\* for p in pages_with_standard_roles: if p.name not in has_role: ...
merge_standard(has_role, rows, parent) ==
    [n \in DOMAIN has_role \cup RowNames(rows) |->
        IF n \in DOMAIN has_role
        THEN has_role[n]
        ELSE standard_entry(CHOOSE p \in rows : p.name = n, parent)]

MergeNoRolesOverwrite(has_role, rows) ==
    [n \in DOMAIN has_role \cup RowNames(rows) |->
        IF n \in RowNames(rows)
        THEN LET p == CHOOSE q \in rows : q.name = n
             IN  [modified |-> p.modified, title |-> p.title]
        ELSE has_role[n]]

\* for p in pages_with_no_roles: if p.name not in has_role: ...
merge_no_roles(has_role, rows) ==
    [n \in DOMAIN has_role \cup RowNames(rows) |->
        IF n \in DOMAIN has_role
        THEN has_role[n]
        ELSE LET p == CHOOSE q \in rows : q.name = n
             IN  [modified |-> p.modified, title |-> p.title]]

\* frappe.get_all("Report", ..., name in has_role.keys()), then report_type
add_report_type(has_role) ==
    [n \in DOMAIN has_role |->
        IF n \in DOMAIN Report
        THEN Put(has_role[n], "report_type", Report[n].report_type)
        ELSE has_role[n]]

----------------------------------------------------------------------------
(* The cache service: frappe.cache().get_value / set_value *)

\* "has_role:" + parent
has_role_key(parent) == "has_role:" \o parent

\* the cache's key of (key, user)
make_key(key, user) == <<key, user>>

\* get_value(key, user=user): the live entry's value, or None
get_value(key, user) ==
    LET k == make_key(key, user)
    IN  IF k \in DOMAIN cache /\ clock < cache[k].expires
        THEN [found |-> TRUE, value |-> cache[k].value]
        ELSE [found |-> FALSE, value |-> <<>>]

\* Python truth of a get_value result: None and the empty dict are falsy
truthy(got) == got.found /\ DOMAIN got.value # {}

\* set_value(key, val, user, expires_in_sec)
set_value(key, val, user, expires_in_sec) ==
    LET k == make_key(key, user)
    IN  [x \in DOMAIN cache \cup {k} |->
            IF x = k THEN [value |-> val, expires |-> clock + expires_in_sec]
            ELSE cache[x]]

----------------------------------------------------------------------------
(* get_user_pages_or_reports *)

NoCall ==
    [called |-> FALSE, user |-> "", parent |-> "", cache |-> FALSE, hit |-> FALSE,
     ret |-> <<>>, at |-> 0, expires |-> 0, dup |-> "",
     rows_custom |-> {}, rows_standard |-> {}, rows_no_roles |-> {},
     after_custom |-> <<>>]

\* if cache: has_role = get_value(...); if has_role: return has_role
serve_from_cache(use_cache, got) == use_cache /\ truthy(got)

\* _cache.get_value("has_role:" + parent, user=frappe.session.user)
cached_has_role(parent) == get_value(has_role_key(parent), session_user)

StoreWithoutUser(parent, has_role) ==
    set_value(has_role_key(parent), has_role, "", TTL)

StoreForTwelveHours(parent, has_role) ==
    set_value(has_role_key(parent), has_role, session_user, 2 * TTL)

\* _cache.set_value("has_role:" + parent, has_role, frappe.session.user, 21600)
store_has_role(parent, has_role) ==
    set_value(has_role_key(parent), has_role, session_user, TTL)

get_user_pages_or_reports(parent, use_cache) ==
    LET user == session_user
        got == cached_has_role(parent)
    IN  IF serve_from_cache(use_cache, got)
        THEN /\ last' = [NoCall EXCEPT !.called = TRUE, !.user = user,
                            !.parent = parent, !.cache = use_cache, !.hit = TRUE,
                            !.ret = got.value, !.at = clock,
                            !.expires = cache[make_key(has_role_key(parent), user)].expires]
             /\ UNCHANGED <<cache, stored>>
        ELSE \E dup \in (IF parent = "Report" /\ DOMAIN CustomRole # {}
                          THEN {"first", "last"} ELSE {"none"}) :
             LET roles == get_roles(user)
                 rowsA == _run_with_permission_query(
                              pages_with_custom_roles(parent, roles, dup), parent, user)
                 rowsB == _run_with_permission_query(
                              pages_with_standard_roles(parent, roles), parent, user)
                 rowsC == IF parent = "Page"
                          THEN _run_with_permission_query(
                                   pages_with_no_roles(parent), parent, user)
                          ELSE {}
             IN  \E hA \in merge_custom(rowsA) :
                 LET hB == merge_standard(hA, rowsB, parent)
                     has_role == IF parent = "Page" THEN merge_no_roles(hB, rowsC)
                                 ELSE add_report_type(hB)
                 IN  /\ cache' = store_has_role(parent, has_role)
                     /\ stored' = [x \in DOMAIN stored \cup {<<parent, user>>} |->
                                     IF x = <<parent, user>>
                                     THEN [value |-> has_role, at |-> clock]
                                     ELSE stored[x]]
                     /\ last' = [called |-> TRUE, user |-> user, parent |-> parent,
                                 cache |-> use_cache, hit |-> FALSE, ret |-> has_role,
                                 at |-> clock, expires |-> clock + TTL, dup |-> dup,
                                 rows_custom |-> rowsA, rows_standard |-> rowsB,
                                 rows_no_roles |-> rowsC, after_custom |-> hA]

----------------------------------------------------------------------------
(* add_home_page *)

HomePages == {NULL, "setup-wizard", "home"}     \* the default desktop:home_page
Outcomes == {"ok", "DoesNotExistError", "PermissionError", "ValidationError"}
Messages == {"m1", "m2"}

NoHome ==
    [called |-> FALSE, user |-> "", outcome |-> "", result |-> "",
     log_before |-> <<>>, log_caught |-> <<>>, docs_before |-> <<>>,
     bootinfo_before |-> <<>>, page |-> [name |-> NULL]]

HandledOnlyNotFound(error) == error = "DoesNotExistError"

\* except (frappe.DoesNotExistError, frappe.PermissionError)
handled(error) == error \in {"DoesNotExistError", "PermissionError"}

PopOldest(log) == IF log # <<>> THEN Tail(log) ELSE log

\* if frappe.message_log: frappe.message_log.pop()
pop_message(log) == IF log # <<>> THEN SubSeq(log, 1, Len(log) - 1) ELSE log

\* frappe.desk.desk_page.get(home_page) ends with outcome; when it raises it
\* may have logged a message first (logged)
add_home_page(home_page, outcome, logged) ==
    LET called == [NoHome EXCEPT !.called = TRUE, !.user = session_user,
                       !.outcome = outcome, !.log_before = message_log,
                       !.log_caught = message_log, !.docs_before = docs,
                       !.bootinfo_before = bootinfo]
    IN  IF session_user = "Guest"
        THEN /\ home' = [called EXCEPT !.outcome = "", !.result = "returned"]
             /\ UNCHANGED <<bootinfo, docs, message_log>>
        ELSE LET boot1 == IF home_page = "setup-wizard"
                          THEN Put(bootinfo, "setup_wizard_requires", "hooks")
                          ELSE bootinfo
                 page == [name |-> home_page]
                 log1 == message_log \o logged
             IN  IF outcome = "ok"
                 THEN /\ docs' = Append(docs, page)
                      /\ bootinfo' = Put(boot1, "home_page", page.name)
                      /\ home' = [called EXCEPT !.result = "returned", !.page = page]
                      /\ UNCHANGED message_log
                 ELSE IF handled(outcome)
                 THEN /\ message_log' = pop_message(log1)
                      /\ bootinfo' = Put(boot1, "home_page", "Workspaces")
                      /\ home' = [called EXCEPT !.result = "returned",
                                                !.log_caught = log1]
                      /\ UNCHANGED docs
                 ELSE /\ message_log' = log1
                      /\ bootinfo' = boot1
                      /\ home' = [called EXCEPT !.result = "raised",
                                                !.log_caught = log1]
                      /\ UNCHANGED docs

----------------------------------------------------------------------------
(* get_link_preview_doctypes *)

DocTypes == {"A", "B"}
Values == {"0", "1"}        \* Property Setter values

\* frappe.utils.cint
cint(value) == IF value = "1" THEN 1 ELSE 0

\* list.remove(x): drops the first occurrence
RECURSIVE remove(_, _)
remove(list, x) ==
    IF list = <<>> THEN <<>>
    ELSE IF Head(list) = x THEN Tail(list)
    ELSE <<Head(list)>> \o remove(Tail(list), x)

Contains(list, x) == \E i \in 1..Len(list) : list[i] = x

ApplyAlwaysAppend(list, custom) == Append(list, custom.doc_type)

\* the body of the loop over customizations
apply_customization(list, custom) ==
    IF cint(custom.value) = 0 /\ Contains(list, custom.doc_type)
    THEN remove(list, custom.doc_type)
    ELSE Append(list, custom.doc_type)

RECURSIVE apply_all(_, _)
apply_all(list, customs) ==
    IF customs = <<>> THEN list
    ELSE apply_all(apply_customization(list, Head(customs)), Tail(customs))

get_link_preview_doctypes ==
    /\ link_preview' = [called |-> TRUE, ret |-> apply_all(doctype_popup, customizations)]
    /\ UNCHANGED <<doctype_popup, customizations>>

----------------------------------------------------------------------------
(* Store contents *)

PageRow(n) == [name |-> n, modified |-> 1, title |-> "Title " \o n]
ReportRow(n, disabled) ==
    [name |-> n, modified |-> 1, ref_doctype |-> "DocR", report_type |-> "Script Report",
     disabled |-> disabled]
CustomRoleRow(c, page, report) ==
    [name |-> c, page |-> page, report |-> report,
     modified |-> IF c = "c1" THEN 2 ELSE 3,
     ref_doctype |-> IF c = "c1" THEN "DocA" ELSE "DocB"]

PageTables == {[n \in S |-> PageRow(n)] : S \in SUBSET Names}
ReportTables ==
    UNION {{[n \in S |-> ReportRow(n, d[n])] : d \in [S -> {0, 1}]} : S \in SUBSET Names}
Targets == {<<NULL, NULL>>} \cup {<<n, NULL>> : n \in Names} \cup {<<NULL, n>> : n \in Names}
CustomRoleTables ==
    {<<>>}
    \cup {[c \in {"c1"} |-> CustomRoleRow(c, t[1], t[2])] : t \in Targets}
    \cup {[c \in {"c1", "c2"} |->
              IF c = "c1" THEN CustomRoleRow(c, t[1], t[2])
              ELSE CustomRoleRow(c, u[1], u[2])]
          : t \in Targets, u \in {<<"e1", NULL>>, <<NULL, "e1">>}}
HasRoleRows == [parent : Names \cup CustomRoleNames, role : Roles]
HasRoleTables == {H \in SUBSET HasRoleRows : Cardinality(H) <= MaxHasRoleRows}

HomeIdle ==
    /\ bootinfo = <<>>
    /\ docs = <<>>
    /\ message_log = <<>>
    /\ home = NoHome
PreviewIdle ==
    /\ doctype_popup = <<>>
    /\ customizations = <<>>
    /\ link_preview = [called |-> FALSE, ret |-> <<>>]

AllPages == [n \in Names |-> PageRow(n)]
AllReports == [n \in Names |-> ReportRow(n, 0)]

InitListing ==
    /\ \/ Page \in PageTables /\ Report = AllReports
       \/ Page = AllPages /\ Report \in ReportTables
    /\ CustomRole \in CustomRoleTables
    /\ HasRole \in HasRoleTables
    /\ \E f \in Fragments : permission_query = [k \in Kinds |-> f]
    /\ session_user \in Users
    /\ cache = <<>>
    /\ clock = 0
    /\ stored = <<>>
    /\ last = NoCall
    /\ HomeIdle
    /\ PreviewIdle

NextListing ==
    \E parent \in Kinds :
        /\ get_user_pages_or_reports(parent, FALSE)
        /\ UNCHANGED <<storeVars, session_user, clock, homeVars, previewVars>>

SpecListing == InitListing /\ [][NextListing]_vars

----------------------------------------------------------------------------
(* Properties of the listing, checked under SpecListing (the store does not
   change, so the tables read below are the ones the last call read) *)

Computed == last.called /\ ~last.hit
FilterApplies(parent, user) ==
    permission_query[parent] # NoFragment /\ user # "Administrator"

\* no role of the user is attached to a Custom Role record
NoCustomRoleOf(user) ==
    ~\E hr \in HasRole : hr.parent \in DOMAIN CustomRole /\ hr.role \in get_roles(user)
GrantedPages(user) ==
    {n \in DOMAIN Page : \E hr \in HasRole : hr.parent = n /\ hr.role \in get_roles(user)}
ZeroRolePages == {n \in DOMAIN Page : ~\E hr \in HasRole : hr.parent = n}
NamedByCustomRole == {CustomRole[c].page : c \in DOMAIN CustomRole} \ {NULL}
PassesFilter(n, user) ==
    FilterApplies("Page", user) => Satisfies([name |-> n], permission_query["Page"])

\* C2 as stated: for a user none of whose roles is attached to a Custom Role
\* record, the keys of the Page listing are exactly the pages with a Has Role
\* row for one of the user's roles together with the pages with no Has Role row.
C2_Original ==
    (Computed /\ last.parent = "Page" /\ NoCustomRoleOf(last.user))
        => DOMAIN last.ret = GrantedPages(last.user) \cup ZeroRolePages

\* C2 amended: the granted pages count only when no Custom Role record names
\* them, and when the permission query filter applies only the pages that
\* satisfy the fragment are listed.
C2_Amended ==
    (Computed /\ last.parent = "Page" /\ NoCustomRoleOf(last.user))
        => DOMAIN last.ret =
             {n \in (GrantedPages(last.user) \ NamedByCustomRole) \cup ZeroRolePages :
                 PassesFilter(n, last.user)}

\* a granted page that a Custom Role of another role names was left out
C2_Witness ==
    /\ Computed /\ last.parent = "Page" /\ NoCustomRoleOf(last.user)
    /\ \E n \in GrantedPages(last.user) \cap NamedByCustomRole : n \notin DOMAIN last.ret
    /\ \E n \in GrantedPages(last.user) \ NamedByCustomRole : n \in DOMAIN last.ret
    /\ ~FilterApplies("Page", last.user)

\* C3: a name the custom-role branch returned keeps, in the final result, the
\* entry built from one of its custom-role rows: modified is that of a Custom
\* Role record naming it, the entry has a ref_doctype key, and neither the
\* standard-role nor the zero-role branch changed it.
C3_FirstWriterWins ==
    Computed =>
        \A n \in RowNames(last.rows_custom) :
            /\ n \in DOMAIN last.ret
            /\ \E p \in last.rows_custom :
                  /\ p.name = n
                  /\ last.ret[n].modified = p.modified
                  /\ last.ret[n].title = p.title
                  /\ "ref_doctype" \in DOMAIN last.ret[n]
                  /\ last.ret[n].ref_doctype = p.ref_doctype
                  /\ last.parent = "Page" => last.ret[n] = custom_entry(p)
            /\ \E c \in DOMAIN CustomRole :
                  /\ CustomRole[c][lower(last.parent)] = n
                  /\ last.ret[n].modified = CustomRole[c].modified

\* a page came from the custom-role branch and from the zero-role branch
C3_Witness ==
    /\ Computed /\ last.parent = "Page"
    /\ RowNames(last.rows_custom) \cap RowNames(last.rows_no_roles) # {}

\* C4: the standard-role branch of a Report listing returns no disabled
\* report, and no key it adds to the listing is a disabled report.
C4_NoDisabledStandard ==
    (Computed /\ last.parent = "Report") =>
        /\ \A p \in last.rows_standard : Report[p.name].disabled = 0
        /\ \A n \in DOMAIN last.ret \ DOMAIN last.after_custom : Report[n].disabled = 0

\* a disabled report the user's role is granted, not named by a Custom Role
C4_Witness ==
    /\ Computed /\ last.parent = "Report"
    /\ \E n \in DOMAIN Report :
          /\ Report[n].disabled = 1
          /\ n \notin subq("Report")
          /\ \E hr \in HasRole : hr.parent = n /\ hr.role \in get_roles(last.user)
          /\ ~FilterApplies("Report", last.user)

\* C9: when the fragment is non-empty and the user is not Administrator every
\* branch returns exactly the rows of its query that satisfy the fragment;
\* otherwise every branch returns its query's rows unfiltered.
C9_PermissionQuery ==
    Computed =>
        LET roles == get_roles(last.user)
            qA == pages_with_custom_roles(last.parent, roles, last.dup)
            qB == pages_with_standard_roles(last.parent, roles)
            qC == IF last.parent = "Page" THEN pages_with_no_roles(last.parent) ELSE {}
            f == permission_query[last.parent]
        IN  IF f # NoFragment /\ last.user # "Administrator"
            THEN /\ \A p \in last.rows_custom \cup last.rows_standard
                                \cup last.rows_no_roles : Satisfies(p, f)
                 /\ last.rows_custom = {p \in qA : Satisfies(p, f)}
                 /\ last.rows_standard = {p \in qB : Satisfies(p, f)}
                 /\ last.rows_no_roles = {p \in qC : Satisfies(p, f)}
            ELSE /\ last.rows_custom = qA
                 /\ last.rows_standard = qB
                 /\ last.rows_no_roles = qC

\* the filter removed a row of every branch's query
C9_Witness ==
    /\ Computed /\ last.parent = "Page" /\ last.user # "Administrator"
    /\ permission_query["Page"] # NoFragment
    /\ \E p \in pages_with_custom_roles("Page", get_roles(last.user), last.dup) :
          p \notin last.rows_custom
    /\ last.rows_custom # {}

----------------------------------------------------------------------------
(* The listing with its cache, over time: calls with and without cache by
   several users, while the store's Has Role rows change *)

\* the Has Role rows that come and go between calls
ChangingRows == {[parent |-> "e1", role |-> "r1"], [parent |-> "e1", role |-> "r2"]}

InitCache ==
    /\ Page = AllPages
    /\ Report = AllReports
    /\ CustomRole = <<>>
    /\ HasRole = {}
    /\ permission_query = [k \in Kinds |-> NoFragment]
    /\ session_user \in Users
    /\ cache = <<>>
    /\ clock = 0
    /\ stored = <<>>
    /\ last = NoCall
    /\ HomeIdle
    /\ PreviewIdle

\* get_allowed_pages(cache) / get_allowed_reports(cache)
Call(parent, use_cache) ==
    /\ get_user_pages_or_reports(parent, use_cache)
    /\ UNCHANGED <<storeVars, session_user, clock, homeVars, previewVars>>

\* time passes
Tick ==
    /\ clock < MaxTicks * TickSeconds
    /\ clock' = clock + TickSeconds
    /\ UNCHANGED <<storeVars, session_user, cache, stored, last, homeVars, previewVars>>

\* a request of another user
SetUser(user) ==
    /\ user # session_user
    /\ session_user' = user
    /\ UNCHANGED <<storeVars, listingVars, homeVars, previewVars>>

\* a role is granted on a page or report
InsertHasRole(row) ==
    /\ row \notin HasRole
    /\ HasRole' = HasRole \cup {row}
    /\ UNCHANGED <<Page, Report, CustomRole, permission_query, session_user,
                   listingVars, homeVars, previewVars>>

\* a grant is removed
DeleteHasRole(row) ==
    /\ row \in HasRole
    /\ HasRole' = HasRole \ {row}
    /\ UNCHANGED <<Page, Report, CustomRole, permission_query, session_user,
                   listingVars, homeVars, previewVars>>

NextCache ==
    \/ \E parent \in Kinds, use_cache \in BOOLEAN : Call(parent, use_cache)
    \/ Tick
    \/ \E user \in Users : SetUser(user)
    \/ \E row \in ChangingRows : InsertHasRole(row)
    \/ \E row \in ChangingRows : DeleteHasRole(row)

SpecCache == InitCache /\ [][NextCache]_vars

----------------------------------------------------------------------------
(* Properties of the cache, checked under SpecCache *)

SameCallAgain(parent) ==
    /\ last.called /\ last.cache
    /\ last.user = session_user /\ last.parent = parent
    /\ Call(parent, TRUE)

\* C1 as stated: a cache=True call that follows a cache=True call of the same
\* user and kind within 6 hours returns the same result and is served from
\* the cache, whatever the listing is (the empty one included).
C1_Original ==
    [][\A parent \in Kinds :
          (SameCallAgain(parent) /\ clock - last.at < TTL)
              => (last'.hit /\ last'.ret = last.ret)]_vars

\* C1 amended: it does so when the first call's listing is not empty and the
\* second call comes before the expiry of the cache entry the first call
\* wrote or was served from.
C1_Amended ==
    [][\A parent \in Kinds :
          (SameCallAgain(parent) /\ DOMAIN last.ret # {} /\ clock < last.expires)
              => (last'.hit /\ last'.ret = last.ret)]_vars

\* a call was served e1 from the cache, later than the entry was stored and
\* after the grant that listed e1 was removed from the store
C1_Witness ==
    /\ last.called /\ last.cache /\ last.hit
    /\ last.user = "u1" /\ last.parent = "Report"
    /\ "e1" \in DOMAIN last.ret
    /\ [parent |-> "e1", role |-> "r1"] \notin HasRole
    /\ stored[<<"Report", "u1">>].at < last.at

\* C8: a computing call leaves its result in the cache under "has_role:" +
\* kind for the session user, expiring 21600 seconds after the call; a call
\* served from the cache returns the value the same user stored last for the
\* same kind, stored less than 21600 seconds before.
C8_StoreAndExpiry ==
    /\ Computed =>
          LET k == <<"has_role:" \o last.parent, last.user>>
          IN  /\ k \in DOMAIN cache
              /\ cache[k] = [value |-> last.ret, expires |-> last.at + 21600]
    /\ (last.called /\ last.hit) =>
          LET k == <<last.parent, last.user>>
          IN  /\ k \in DOMAIN stored
              /\ stored[k].value = last.ret
              /\ last.at - stored[k].at < 21600
              /\ last.cache

\* a cache=True call recomputed at the very second its user's entry expired,
\* while the other user's younger entry for the same kind was alive
C8_Witness ==
    /\ Computed /\ last.cache /\ last.user = "u1" /\ last.parent = "Page"
    /\ last.at = 21600
    /\ <<"has_role:Page", "Administrator">> \in DOMAIN cache
    /\ cache[<<"has_role:Page", "Administrator">>].expires > clock
    /\ cache[<<"has_role:Page", "Administrator">>].value # last.ret

----------------------------------------------------------------------------
(* Home-page resolution within a request *)

ListingIdle ==
    /\ Page = AllPages
    /\ Report = AllReports
    /\ CustomRole = <<>>
    /\ HasRole = {}
    /\ permission_query = [k \in Kinds |-> NoFragment]
    /\ cache = <<>>
    /\ clock = 0
    /\ stored = <<>>
    /\ last = NoCall

\* bootinfo as get_bootinfo has it before the loaders run
FreshBootinfo == [k \in {"sitename"} |-> "site"]

InitHome ==
    /\ ListingIdle
    /\ session_user \in Users \cup {"Guest"}
    /\ bootinfo = FreshBootinfo
    /\ docs = <<>>
    /\ message_log = <<>>
    /\ home = NoHome
    /\ PreviewIdle

\* a new request: get_bootinfo starts with an empty bootinfo and doclist
Request(user) ==
    /\ home.called
    /\ session_user' = user
    /\ bootinfo' = FreshBootinfo
    /\ docs' = <<>>
    /\ message_log' = <<>>
    /\ home' = NoHome
    /\ UNCHANGED <<storeVars, listingVars, previewVars>>

\* frappe.msgprint by an earlier step of the request
Msgprint(m) ==
    /\ ~home.called
    /\ Len(message_log) < MaxLog
    /\ message_log' = Append(message_log, m)
    /\ UNCHANGED <<storeVars, session_user, listingVars, bootinfo, docs, home, previewVars>>

\* an earlier loader appends its document
AppendDoc ==
    /\ ~home.called
    /\ Len(docs) < MaxDocs
    /\ docs' = Append(docs, [name |-> "Print Settings"])
    /\ UNCHANGED <<storeVars, session_user, listingVars, bootinfo, message_log, home,
                   previewVars>>

AddHomePage ==
    /\ ~home.called
    /\ \E home_page \in HomePages, outcome \in Outcomes, logged \in {<<>>, <<"error">>} :
          /\ outcome = "ok" => (home_page # NULL /\ logged = <<>>)
          /\ add_home_page(home_page, outcome, logged)
    /\ UNCHANGED <<storeVars, session_user, listingVars, previewVars>>

NextHome ==
    \/ \E user \in Users \cup {"Guest"} : Request(user)
    \/ \E m \in Messages : Msgprint(m)
    \/ AppendDoc
    \/ AddHomePage

SpecHome == InitHome /\ [][NextHome]_vars

\* C5: a Guest call leaves bootinfo as it was, without a home_page key; for
\* another user a not-found or permission error gives home_page "Workspaces",
\* and a loaded page gives its name as home_page and is appended to docs.
C5_HomePage ==
    home.called =>
        /\ home.user = "Guest" =>
              /\ "home_page" \notin DOMAIN bootinfo
              /\ bootinfo = home.bootinfo_before
              /\ home.result = "returned"
        /\ (home.user # "Guest"
              /\ home.outcome \in {"DoesNotExistError", "PermissionError"}) =>
              /\ home.result = "returned"
              /\ "home_page" \in DOMAIN bootinfo
              /\ bootinfo["home_page"] = "Workspaces"
        /\ (home.user # "Guest" /\ home.outcome = "ok") =>
              /\ home.result = "returned"
              /\ "home_page" \in DOMAIN bootinfo
              /\ bootinfo["home_page"] = home.page.name
              /\ docs = Append(home.docs_before, home.page)

\* the page load of a non-Guest user raised a permission error
C5_Witness ==
    /\ home.called /\ home.user = "u1" /\ home.outcome = "PermissionError"
    /\ bootinfo["home_page"] = "Workspaces"
    /\ Len(docs) = 1

\* C10: for a non-Guest user, a not-found or permission error removes the
\* most recent entry of a non-empty message log and leaves an empty one
\* empty; a loaded page leaves the log as it was; any other error is raised
\* to the caller, with no home_page set and the log untouched.
C10_MessageLog ==
    (home.called /\ home.user # "Guest") =>
        /\ home.outcome \in {"DoesNotExistError", "PermissionError"} =>
              /\ home.log_caught = <<>> => message_log = <<>>
              /\ home.log_caught # <<>> =>
                    /\ Len(message_log) = Len(home.log_caught) - 1
                    /\ \A i \in 1..Len(message_log) : message_log[i] = home.log_caught[i]
              /\ docs = home.docs_before
        /\ home.outcome = "ok" => message_log = home.log_before
        /\ home.outcome \notin {"ok", "DoesNotExistError", "PermissionError"} =>
              /\ home.result = "raised"
              /\ "home_page" \notin DOMAIN bootinfo
              /\ message_log = home.log_caught
              /\ docs = home.docs_before

\* a not-found error that logged its message, on a log of two other messages
C10_Witness ==
    /\ home.called /\ home.user # "Guest" /\ home.outcome = "DoesNotExistError"
    /\ home.log_caught = <<"m1", "m2", "error">>
    /\ message_log = <<"m1", "m2">>

----------------------------------------------------------------------------
(* The link-preview list over every base list and override sequence *)

RECURSIVE NoDuplicates(_)
NoDuplicates(list) ==
    list = <<>> \/ (~Contains(Tail(list), Head(list)) /\ NoDuplicates(Tail(list)))

\* get_all("DocType", {"show_preview_popup": 1}): each doctype at most once
BaseLists == {l \in UNION {[1..n -> DocTypes] : n \in 0..Cardinality(DocTypes)} :
                 NoDuplicates(l)}
OverrideLists ==
    UNION {[1..n -> [doc_type : DocTypes, value : Values]] : n \in 0..MaxOverrides}

InitPreview ==
    /\ ListingIdle
    /\ session_user = "Administrator"
    /\ HomeIdle
    /\ doctype_popup \in BaseLists
    /\ customizations \in OverrideLists
    /\ link_preview = [called |-> FALSE, ret |-> <<>>]

NextPreview ==
    /\ get_link_preview_doctypes
    /\ UNCHANGED <<storeVars, session_user, listingVars, homeVars>>

SpecPreview == InitPreview /\ [][NextPreview]_vars

Naming(d) == {i \in 1..Len(customizations) : customizations[i].doc_type = d}
LastNaming(d) == CHOOSE i \in Naming(d) : \A j \in Naming(d) : j <= i

\* C6 as stated: a doctype that some override names is in the returned list
\* exactly when the last override naming it is an enable.
C6_LastOverrideWins ==
    link_preview.called =>
        \A d \in DocTypes :
            Naming(d) # {} =>
                (Contains(link_preview.ret, d)
                    <=> customizations[LastNaming(d)].value # "0")

\* C7: a doctype of the base list that exactly one override names, a
\* disable, is not in the returned list.
C7_DisabledBaseAbsent ==
    link_preview.called =>
        \A d \in DocTypes :
            (/\ Contains(doctype_popup, d)
             /\ Cardinality(Naming(d)) = 1
             /\ customizations[LastNaming(d)].value = "0")
                => ~Contains(link_preview.ret, d)

\* A is in the base list and disabled once, between overrides of B
C7_Witness ==
    /\ link_preview.called
    /\ Contains(doctype_popup, "A")
    /\ Len(customizations) = 3
    /\ customizations[1].doc_type = "B"
    /\ customizations[2] = [doc_type |-> "A", value |-> "0"]
    /\ customizations[3].doc_type = "B"
    /\ ~Contains(link_preview.ret, "A")

====
